---- MODULE Spec2Model ----
(***************************************************************************)
(* Query gateway of src/Main.py: access gate, identifier check, query      *)
(* gate, query execution, result formatting and chunked delivery, for the  *)
(* HTTP routes (/table, /query) and the chat commands (/start, /table,     *)
(* /query).                                                                *)
(*                                                                         *)
(* A Python str is a sequence of one-character strings; None is the value  *)
(* None below; an optional int is a sequence of length 0 or 1.             *)
(***************************************************************************)
EXTENDS Integers, Sequences, FiniteSets, TLC

VARIABLES
    HTTP_API_KEY,       \* os.getenv("HTTP_API_KEY"): None or a str
    TELEGRAM_ALLOWED,   \* the allow-list value read from the environment: None or a str
    ALLOWED_CHAT_IDS,   \* parsed allow-list: [is_none |-> BOOLEAN, ids |-> set of int]
    pc,                 \* position of the handler: "idle", "format", "send", "done"
    request,            \* the request being handled (or the last one handled)
    trace,              \* stages the handler went through, in order, with their verdicts
    db_calls,           \* run_query calls made for the request: <<[sql, params]>>
    replies,            \* what the caller received, in order
    cols, rows, max_rows,   \* arguments of format_results
    lines,              \* the list format_results built
    out,                \* the str format_results returned
    chunk_size, i,      \* locals of the chunked send loop (i is 0-based)
    sent,               \* the slices out[i:i+chunk_size] sent so far: <<[offset, piece]>>
    program,            \* the entry point that is running: "Main.py", "main.py" or "telegram_db_bot.py"
    tasks,              \* the requests in flight side by side: task id -> its handler's state
    conns,              \* every database connection opened so far, in the order of opening
    loop                \* 0, or the task whose synchronous code holds the thread that drives the handlers

\* the state of the handlers running side by side
conc == <<program, tasks, conns, loop>>

\* the configuration and the state of the one handler followed step by step
single == <<HTTP_API_KEY, TELEGRAM_ALLOWED, ALLOWED_CHAT_IDS, pc, request, trace,
            db_calls, replies, cols, rows, max_rows, lines, out, chunk_size, i, sent>>

vars == <<single, conc>>

(***************************************************************************)
(* Python values and str methods                                           *)
(***************************************************************************)
None == <<"None">>

\* the sequence [k \in 1..n |-> f[k]] as a tuple
Tuple(f, n) == SubSeq(f, 1, n)

\* c * n
Rep(c, n) == Tuple([k \in 1..n |-> c], n)

ASCII_UPPER == <<"A","B","C","D","E","F","G","H","I","J","K","L","M",
                 "N","O","P","Q","R","S","T","U","V","W","X","Y","Z">>

ASCII_LOWER == <<"a","b","c","d","e","f","g","h","i","j","k","l","m",
                 "n","o","p","q","r","s","t","u","v","w","x","y","z">>

DIGITS == <<"0","1","2","3","4","5","6","7","8","9">>

\* characters str.strip / str.lstrip remove by default
WHITESPACE == {" ", "\t", "\n", "\r", "\f"}

lower_char(c) ==
    IF \E k \in 1..26 : ASCII_UPPER[k] = c
    THEN ASCII_LOWER[CHOOSE k \in 1..26 : ASCII_UPPER[k] = c]
    ELSE c

\* str.lower()
lower(s) == Tuple([k \in 1..Len(s) |-> lower_char(s[k])], Len(s))

\* whether s holds a character that strip would keep
has_text(s) == \E k \in 1..Len(s) : s[k] \notin WHITESPACE

\* index of the first character of s that is not whitespace
first_text(s) ==
    CHOOSE k \in 1..Len(s) :
        s[k] \notin WHITESPACE /\ \A j \in 1..(k - 1) : s[j] \in WHITESPACE

\* index of the last character of s that is not whitespace
last_text(s) ==
    Len(s) - CHOOSE d \in 0..(Len(s) - 1) :
                 /\ s[Len(s) - d] \notin WHITESPACE
                 /\ \A e \in 0..(d - 1) : s[Len(s) - e] \in WHITESPACE

\* str.lstrip()
lstrip(s) == IF ~has_text(s) THEN <<>> ELSE SubSeq(s, first_text(s), Len(s))

\* str.strip()
strip(s) == IF ~has_text(s) THEN <<>> ELSE SubSeq(s, first_text(s), last_text(s))

\* str.startswith(prefix)
startswith(s, prefix) ==
    /\ Len(s) >= Len(prefix)
    /\ SubSeq(s, 1, Len(prefix)) = prefix

\* f in s, for two str
contains(s, f) ==
    \E k \in 0..(Len(s) - Len(f)) : SubSeq(s, k + 1, k + Len(f)) = f

\* sep.join(parts)
RECURSIVE join(_, _)
join(sep, parts) ==
    IF parts = <<>> THEN <<>>
    ELSE IF Len(parts) = 1 THEN parts[1]
    ELSE parts[1] \o sep \o join(sep, Tail(parts))

\* str.partition(" ")[2]: what follows the first space, "" when there is none
partition_tail(s) ==
    IF \A k \in 1..Len(s) : s[k] # " " THEN <<>>
    ELSE LET at == CHOOSE k \in 1..Len(s) : s[k] = " " /\ \A j \in 1..(k - 1) : s[j] # " "
         IN  SubSeq(s, at + 1, Len(s))

\* s.split(","): the pieces between the commas, in order
split_comma(s) ==
    LET cuts == <<0>> \o [k \in 1..Cardinality({j \in 1..Len(s) : s[j] = ","}) |->
                             CHOOSE j \in 1..Len(s) :
                                 /\ s[j] = ","
                                 /\ Cardinality({m \in 1..j : s[m] = ","}) = k]
                      \o <<Len(s) + 1>>
    IN  [k \in 1..(Len(cuts) - 1) |-> SubSeq(s, cuts[k] + 1, cuts[k + 1] - 1)]

digit_value(c) == (CHOOSE k \in 1..10 : DIGITS[k] = c) - 1

is_digit(c) == \E k \in 1..10 : DIGITS[k] = c

RECURSIVE digits_value(_)
digits_value(ds) ==
    IF ds = <<>> THEN 0
    ELSE 10 * digits_value(SubSeq(ds, 1, Len(ds) - 1)) + digit_value(ds[Len(ds)])

\* int(x) for a str: surrounding whitespace, an optional sign, decimal digits
\* with single underscores between digits; anything else raises ValueError.
int_parse(x) ==
    LET t    == strip(x)
        neg  == t # <<>> /\ t[1] = "-"
        body == IF t # <<>> /\ t[1] \in {"+", "-"} THEN Tail(t) ELSE t
        good == /\ body # <<>>
                /\ \A k \in 1..Len(body) :
                      \/ is_digit(body[k])
                      \/ /\ body[k] = "_"
                         /\ k > 1 /\ k < Len(body)
                         /\ is_digit(body[k - 1]) /\ is_digit(body[k + 1])
        ds   == SelectSeq(body, is_digit)
    IN  IF good THEN [ok |-> TRUE, val |-> IF neg THEN 0 - digits_value(ds) ELSE digits_value(ds)]
        ELSE [ok |-> FALSE, val |-> 0]

RECURSIVE nat_str(_)
nat_str(n) == IF n < 10 THEN <<DIGITS[n + 1]>> ELSE nat_str(n \div 10) \o <<DIGITS[(n % 10) + 1]>>

\* str(n) for an int
int_str(n) == IF n < 0 THEN <<"-">> \o nat_str(0 - n) ELSE nat_str(n)

\* html.escape(s) with quote=True, one character
escape_char(c) ==
    CASE c = "&"  -> <<"&","a","m","p",";">>
      [] c = "<"  -> <<"&","l","t",";">>
      [] c = ">"  -> <<"&","g","t",";">>
      [] c = "\"" -> <<"&","q","u","o","t",";">>
      [] c = "'"  -> <<"&","#","x","2","7",";">>
      [] OTHER    -> <<c>>

RECURSIVE escape_range(_, _, _)
escape_range(s, lo, hi) ==
    IF lo > hi THEN <<>>
    ELSE IF lo = hi THEN escape_char(s[lo])
    ELSE LET mid == (lo + hi) \div 2
         IN  escape_range(s, lo, mid) \o escape_range(s, mid + 1, hi)

\* html.escape(s)
html_escape(s) == escape_range(s, 1, Len(s))

(***************************************************************************)
(* Configuration and validation constants                                  *)
(***************************************************************************)
MAX_QUERY_LENGTH == 3000

\* the quantifier bound of VALID_TABLE_RE = ^[A-Za-z0-9_]{1,63}$
TABLE_NAME_MAX == 63

CHUNK_SIZE == 3800

\* max_rows of format_results in tg_query, and the preview cap of http_query
QUERY_MAX_ROWS == 200

DEFAULT_LIMIT == 20

LIMIT_MIN == 1

LIMIT_MAX == 1000

\* the chat transport's per-message ceiling the chunk size is meant to respect
TELEGRAM_MESSAGE_MAX == 4096

\* FORBIDDEN_WORDS without its last entry
FORBIDDEN_WORDS_short == <<
    <<";">>,
    <<"d","r","o","p"," ">>,
    <<"d","e","l","e","t","e"," ">>,
    <<"u","p","d","a","t","e"," ">>,
    <<"i","n","s","e","r","t"," ">>,
    <<"t","r","u","n","c","a","t","e"," ">>,
    <<"a","l","t","e","r"," ">> >>

FORBIDDEN_WORDS == <<
    <<";">>,
    <<"d","r","o","p"," ">>,
    <<"d","e","l","e","t","e"," ">>,
    <<"u","p","d","a","t","e"," ">>,
    <<"i","n","s","e","r","t"," ">>,
    <<"t","r","u","n","c","a","t","e"," ">>,
    <<"a","l","t","e","r"," ">>,
    <<"c","r","e","a","t","e"," ">> >>

SELECT_KW == <<"s","e","l","e","c","t">>

\* [A-Za-z0-9_]
table_name_char(c) ==
    \/ \E k \in 1..26 : ASCII_UPPER[k] = c \/ ASCII_LOWER[k] = c
    \/ is_digit(c)
    \/ c = "_"

\* VALID_TABLE_RE.match(name) is not None.  The pattern is anchored with ^
\* and $; Python's $ (no re.MULTILINE) matches at the end of the string and
\* also just before a newline that is the string's last character.
VALID_TABLE_RE_match(name) ==
    \E n \in 1..TABLE_NAME_MAX :
        /\ n <= Len(name)
        /\ \A k \in 1..n : table_name_char(name[k])
        /\ \/ n = Len(name)
           \/ n = Len(name) - 1 /\ name[Len(name)] = "\n"

\* query_is_safe looking for the forbidden words in payload, not in lp
query_is_safe_case_sensitive(payload) ==
    IF payload = <<>> THEN FALSE
    ELSE IF Len(payload) > MAX_QUERY_LENGTH THEN FALSE
    ELSE IF contains(payload, <<";">>) THEN FALSE
    ELSE LET lp == lower(payload)
         IN  IF ~startswith(lstrip(lp), SELECT_KW) THEN FALSE
             ELSE IF \E k \in 1..Len(FORBIDDEN_WORDS) : contains(payload, FORBIDDEN_WORDS[k]) THEN FALSE
             ELSE TRUE

\* query_is_safe(payload)
query_is_safe(payload) ==
    IF payload = <<>> THEN FALSE
    ELSE IF Len(payload) > MAX_QUERY_LENGTH THEN FALSE
    ELSE IF contains(payload, <<";">>) THEN FALSE
    ELSE LET lp == lower(payload)
         IN  IF ~startswith(lstrip(lp), SELECT_KW) THEN FALSE
             ELSE IF \E k \in 1..Len(FORBIDDEN_WORDS) : contains(lp, FORBIDDEN_WORDS[k]) THEN FALSE
             ELSE TRUE

\* the parse with the except branch falling back to no allow-list
parse_allowed_open(value) ==
    IF value = None \/ value = <<>> THEN [is_none |-> TRUE, ids |-> {}]
    ELSE LET parts == SelectSeq(split_comma(value), LAMBDA x : strip(x) # <<>>)
             nums  == [k \in 1..Len(parts) |-> int_parse(strip(parts[k]))]
         IN  IF \A k \in 1..Len(nums) : nums[k].ok
             THEN [is_none |-> FALSE, ids |-> {nums[k].val : k \in 1..Len(nums)}]
             ELSE [is_none |-> TRUE, ids |-> {}]

\* The module-level parse of the allow-list value:
\*   if TELEGRAM_ALLOWED: try: set(int(x.strip()) for x in split(",") if x.strip())
\*                        except Exception: set()
\*   else: None
parse_allowed(value) ==
    IF value = None \/ value = <<>> THEN [is_none |-> TRUE, ids |-> {}]
    ELSE LET parts == SelectSeq(split_comma(value), LAMBDA x : strip(x) # <<>>)
             nums  == [k \in 1..Len(parts) |-> int_parse(strip(parts[k]))]
         IN  IF \A k \in 1..Len(nums) : nums[k].ok
             THEN [is_none |-> FALSE, ids |-> {nums[k].val : k \in 1..Len(nums)}]
             ELSE [is_none |-> FALSE, ids |-> {}]

\* require_api_key that lets a request without the header through
require_api_key_missing_ok(key, x_api_key) ==
    IF key # None /\ key # <<>>
    THEN x_api_key = key \/ x_api_key = None
    ELSE TRUE

\* require_api_key(x_api_key): TRUE when it returns, FALSE when it raises 401
require_api_key(key, x_api_key) ==
    IF key # None /\ key # <<>>
    THEN x_api_key = key
    ELSE TRUE

\* is_chat_allowed(chat_id)
is_chat_allowed(allowed, chat_id) ==
    IF allowed.is_none THEN TRUE
    ELSE chat_id \in allowed.ids

\* the clamp without its lower bound: min(1000, limit)
clamp_limit_no_floor(limit) ==
    IF LIMIT_MAX < limit THEN LIMIT_MAX ELSE limit

\* max(1, min(1000, limit))
clamp_limit(limit) ==
    LET lo == IF LIMIT_MAX < limit THEN LIMIT_MAX ELSE limit
    IN  IF LIMIT_MIN > lo THEN LIMIT_MIN ELSE lo

\* f'SELECT * FROM "{table}" LIMIT %s'
table_sql(table) ==
    <<"S","E","L","E","C","T"," ","*"," ","F","R","O","M"," ","\"">> \o table \o <<"\""," ","L","I","M","I","T"," ","%","s">>

(***************************************************************************)
(* Result values and format_results                                        *)
(***************************************************************************)
\* A cell of a row: [t |-> "str" | "int" | "none" | "bytes", v |-> its value]
StrV(s) == [t |-> "str", v |-> s]

IntV(n) == [t |-> "int", v |-> n]

NoneV == [t |-> "none", v |-> 0]

BytesV(bs) == [t |-> "bytes", v |-> bs]

\* ASCII, code points 32..95 (the lower-case letters are ASCII_LOWER)
ASCII_PRINTABLE == <<
    " ","!","\"","#","$","%","&","'","(",")","*","+",",","-",".","/",
    "0","1","2","3","4","5","6","7","8","9",":",";","<","=",">","?",
    "@","A","B","C","D","E","F","G","H","I","J","K","L","M","N","O",
    "P","Q","R","S","T","U","V","W","X","Y","Z","[","\\","]","^","_" >>

REPLACEMENT_CHAR == "U+FFFD"

\* bytes.decode("utf-8", errors="replace") on bytes that are ASCII letters,
\* digits, punctuation, tab or newline (one character each) or 0xF8..0xFF
\* (never valid in UTF-8: one U+FFFD each)
decode_byte(b) ==
    IF b >= 32 /\ b <= 95 THEN ASCII_PRINTABLE[b - 31]
    ELSE IF b >= 97 /\ b <= 122 THEN ASCII_LOWER[b - 96]
    ELSE IF b = 10 THEN "\n"
    ELSE IF b = 9 THEN "\t"
    ELSE REPLACEMENT_CHAR

decode_utf8(bs) == Tuple([k \in 1..Len(bs) |-> decode_byte(bs[k])], Len(bs))

\* the str appended to safe for one cell (lines 101-110)
cell_str(v) ==
    IF v.t = "bytes" THEN decode_utf8(v.v)
    ELSE IF v.t = "none" THEN <<"N","U","L","L">>
    ELSE IF v.t = "int" THEN int_str(v.v)
    ELSE v.v

\* " | ".join(safe) for one row
row_line(row) == join(<<" ","|"," ">>, [k \in 1..Len(row) |-> cell_str(row[k])])

\* an empty str for a result without columns
NO_RESULTS_empty == <<>>

\* "(nenhum resultado)"
NO_RESULTS == <<"(","n","e","n","h","u","m"," ","r","e","s","u","l","t","a","d","o",")">>

\* header = " | ".join(cols); lines = [header, "-" * len(header)]
header_lines(c) ==
    LET header == join(<<" ","|"," ">>, c)
    IN  <<header, Rep("-", Len(header))>>

\* f"... {len(rows) - max_rows} linhas omitidas ..."
omitted_line(r, m) == <<".",".","."," ">> \o int_str(Len(r) - m) \o <<" ","l","i","n","h","a","s"," ","o","m","i","t","i","d","a","s"," ",".",".",".">>

\* the loop pass with the cap test off by one: count > max_rows
format_row_step_late(ls, r, m, cnt, k) ==
    IF cnt > m
    THEN [lines |-> Append(ls, omitted_line(r, m)), count |-> cnt, broke |-> TRUE]
    ELSE [lines |-> Append(ls, row_line(r[k])), count |-> cnt + 1, broke |-> FALSE]

\* one pass of the loop over rows, at rows[k] (lines 96-112): the lines after
\* it, the count, and whether the loop broke
format_row_step(ls, r, m, cnt, k) ==
    IF cnt >= m
    THEN [lines |-> Append(ls, omitted_line(r, m)), count |-> cnt, broke |-> TRUE]
    ELSE [lines |-> Append(ls, row_line(r[k])), count |-> cnt + 1, broke |-> FALSE]

RECURSIVE format_loop(_, _, _, _, _)
format_loop(ls, r, m, cnt, k) ==
    IF k > Len(r) THEN ls
    ELSE LET s == format_row_step(ls, r, m, cnt, k)
         IN  IF s.broke THEN s.lines ELSE format_loop(s.lines, r, m, s.count, k + 1)

\* the list named lines when format_results returns (none is built when
\* the column list is empty)
format_lines(c, r, m) ==
    IF c = <<>> THEN <<>>
    ELSE format_loop(header_lines(c), r, m, 0, 1)

\* format_results(cols, rows, max_rows)
format_results(c, r, m) ==
    IF c = <<>> THEN NO_RESULTS
    ELSE join(<<"\n">>, format_lines(c, r, m))

(***************************************************************************)
(* Replies                                                                 *)
(***************************************************************************)
HttpError(code, text) == [kind |-> "http", status |-> code, detail |-> text]

\* {"columns": cols, "rows_count": len(rows), "rows_preview": rows[:n]}
HttpOk(c, r, n) ==
    [kind |-> "http", status |-> 200, columns |-> c, rows_count |-> Len(r),
     rows_preview |-> SubSeq(r, 1, IF n < Len(r) THEN n ELSE Len(r))]

\* update.message.reply_text(text)
ChatReply(text) == [kind |-> "chat", text |-> text, parse_mode |-> "None"]

\* update.message.reply_text(f"<pre>{html.escape(piece)}</pre>", parse_mode="HTML")
pre_message(piece) == <<"<","p","r","e",">">> \o html_escape(piece) \o <<"<","/","p","r","e",">">>

ChatHtmlReply(piece) == [kind |-> "chat", text |-> pre_message(piece), parse_mode |-> "HTML"]

\* the slice one character short: out[i:i+chunk_size-1]
slice_short(s, from, size) ==
    SubSeq(s, from + 1, IF from + size - 1 < Len(s) THEN from + size - 1 ELSE Len(s))

\* out[i:i+chunk_size] with 0-based i
slice(s, from, size) ==
    SubSeq(s, from + 1, IF from + size < Len(s) THEN from + size ELSE Len(s))

MSG_API_KEY == <<"A","P","I"," ","k","e","y"," ","i","n","v","á","l","i","d","a">>

MSG_BAD_TABLE == <<"N","o","m","e"," ","d","e"," ","t","a","b","e","l","a"," ","i","n","v","á","l","i","d","o",".">>

MSG_BAD_QUERY == <<"Q","u","e","r","y"," ","i","n","v","á","l","i","d","a"," ","o","u"," ","n","ã","o"," ","p","e","r","m","i","t","i","d","a",".">>

MSG_DENIED == <<"A","c","e","s","s","o"," ","n","e","g","a","d","o",".">>

MSG_START == <<"B","o","t"," ","a","t","i","v","o","."," ","U","s","e"," ","/","t","a","b","l","e"," ","<","n","o","m","e",">"," ","[","l","i","m","i","t","e","]"," ","o","u"," ","/","q","u","e","r","y"," ","<","S","E","L","E","C","T"," ",".",".",".",">"," ","(","a","p","e","n","a","s"," ","S","E","L","E","C","T",")",".">>

MSG_TABLE_USAGE == <<"U","s","o",":"," ","/","t","a","b","l","e"," ","<","n","o","m","e","_","d","a","_","t","a","b","e","l","a",">"," ","[","l","i","m","i","t","e","]">>

MSG_QUERY_USAGE == <<"U","s","o",":"," ","/","q","u","e","r","y"," ","<","S","E","L","E","C","T"," ",".",".",".",">">>

MSG_BAD_LIMIT == <<"L","i","m","i","t","e"," ","i","n","v","á","l","i","d","o",".">>

MSG_TABLE_ERROR == <<"E","r","r","o"," ","a","o"," ","c","o","n","s","u","l","t","a","r",":"," ">>

MSG_QUERY_ERROR == <<"E","r","r","o"," ","a","o"," ","e","x","e","c","u","t","a","r"," ","S","E","L","E","C","T",":"," ">>

(***************************************************************************)
(* Bounds and the inputs drawn from them                                   *)
(***************************************************************************)
\* most rows a database result carries
MaxDbRows == 3

KEY_A == <<"s","e","c","r","e","t">>

KEY_B == <<"S","e","c","r","e","t">>

\* values of the HTTP_API_KEY environment variable
ApiKeyConfigs == {None, <<>>, KEY_A}

\* values of the credential header of a request
ApiKeyHeaders == {None, KEY_A, KEY_B}

\* values of the allow-list environment variable
AllowedConfigs ==
    {None, <<>>, <<"1","2">>, <<"1","2",",","3","4">>, <<" ","1","2"," ",","," ","3","4",",">>, <<"a","b","c">>, <<"1","2",",","a","b","c">>, <<",">>}

ChatIds == {12, 34, 56}

T_users == <<"u","s","e","r","s">>

\* table names of /table/{table_name}: any str
HttpTableNames ==
    {T_users, <<"a","_","1">>, <<>>, <<"u","s","e","r","s",";"," ","D","R","O","P"," ","T","A","B","L","E"," ","u","s","e","r","s","-","-">>, <<"u","s","\"","e","r","s">>, <<"u","s","e","r","s","\n">>}

\* limit of /table: absent, or an int
HttpLimits == {<<>>, <<0 - 7>>, <<0>>, <<1>>, <<2>>, <<1000>>, <<1001>>, <<5000>>}

\* context.args of /table: the words after the command (no whitespace, not empty)
TgLimitWords == {<<"5","0","0","0">>, <<"0">>, <<"-","1">>, <<"1">>, <<"2">>, <<"1","0","0","0">>, <<"1","0","0","1">>, <<"a","b","c">>}

TgTableWords == {T_users, <<"a","_","1">>, <<"u","s","e","r","s",";">>, <<"u","s","\"","e","r","s">>}

TgTableArgs ==
    {<<>>}
    \cup {<<t>> : t \in TgTableWords}
    \cup {<<t, l>> : t \in TgTableWords, l \in TgLimitWords}
    \cup {<<T_users, <<"7">>, <<"e","x","t","r","a">>>>}

\* the sql of POST /query, and what follows "/query" in a chat message
QueryTexts ==
    {<<"S","E","L","E","C","T"," ","1">>, <<" "," ","s","e","l","e","c","t"," ","*"," ","f","r","o","m"," ","t"," ">>, <<"D","R","O","P"," ","T","A","B","L","E"," ","u","s","e","r","s">>, <<"s","e","l","e","c","t"," ","1",";"," ","d","r","o","p"," ","t","a","b","l","e"," ","t">>,
     <<"s","e","l","e","c","t"," ","a"," ","f","r","o","m"," ","t"," ","w","h","e","r","e"," ","b"," ","="," ","'","d","r","o","p"," ","m","e","'">>, <<"s","e","l","e","c","t"," ","u","p","d","a","t","e","d","_","a","t"," ","f","r","o","m"," ","t">>,
     <<"S","e","L","e","C","t"," ","1"," ","f","r","o","m"," ","D","e","l","e","t","e"," ","x">>, <<>>, <<" "," "," ">>, <<"s","e","l","e","c","t","x">>}

TgQueryTexts ==
    {<<"/","q","u","e","r","y">>} \cup {<<"/","q","u","e","r","y"," ">> \o q : q \in QueryTexts}

SampleRow(k) ==
    <<IntV(k), IF k % 3 = 1 THEN StrV(<<"a","n","n">>)
               ELSE IF k % 3 = 2 THEN NoneV
               ELSE BytesV(<<111, 255, 107>>)>>

SampleRows(n) == [k \in 1..n |-> SampleRow(k)]

SampleCols == <<<<"i","d">>, <<"n","a","m","e">>>>

\* one text cell long enough for the block to need a second chunk
LongResult == [ok |-> TRUE, cols |-> <<<<"c">>>>, rows |-> <<<<StrV(Rep("x", CHUNK_SIZE))>>>>]

\* one text cell of markup characters
MarkupResult == [ok |-> TRUE, cols |-> <<<<"c">>>>, rows |-> <<<<StrV(Rep("<", 1100))>>>>]

\* what the database answers: a result, or an exception with its message
DbResults ==
    {[ok |-> TRUE, cols |-> <<>>, rows |-> <<>>]}
    \cup {[ok |-> TRUE, cols |-> SampleCols, rows |-> SampleRows(n)] : n \in 0..MaxDbRows}

\* results whose formatted block is long or full of markup characters
BigDbResults == {LongResult, MarkupResult}

DbErrors == {[ok |-> FALSE, error |-> <<"c","o","n","n","e","c","t","i","o","n"," ","r","e","f","u","s","e","d">>]}

DbOutcomes == DbResults \cup DbErrors

(***************************************************************************)
(* Handlers                                                                *)
(***************************************************************************)
NoRequest == [kind |-> "none"]

Stage(name, verdict) == [stage |-> name, ok |-> verdict]

\* the handler returns (or raises to the framework) with these replies
Finish(tr, calls, reps) ==
    /\ trace' = tr
    /\ db_calls' = calls
    /\ replies' = reps
    /\ pc' = "done"
    /\ cols' = <<>> /\ rows' = <<>> /\ max_rows' = 0
    /\ lines' = <<>> /\ out' = <<>> /\ chunk_size' = CHUNK_SIZE /\ i' = 0 /\ sent' = <<>>
    /\ UNCHANGED conc

\* run_query returned (c, r); the handler goes on to format_results(c, r, m)
ToFormat(tr, calls, c, r, m) ==
    /\ trace' = tr
    /\ db_calls' = calls
    /\ replies' = <<>>
    /\ pc' = "format"
    /\ cols' = c /\ rows' = r /\ max_rows' = m
    /\ lines' = <<>> /\ out' = <<>> /\ chunk_size' = CHUNK_SIZE /\ i' = 0 /\ sent' = <<>>
    /\ UNCHANGED conc

\* run_query(sql, params) as the handler sees it: one call, answered by outcome
Call(sql, params) == [sql |-> sql, params |-> params]

\* http_table(table_name, limit, api_key)
http_table(names, limits, outcomes) ==
    /\ pc = "idle"
    /\ \E api_key \in ApiKeyHeaders, table_name \in names, limit \in limits,
          outcome \in outcomes :
        LET lim == clamp_limit(IF limit = <<>> THEN DEFAULT_LIMIT ELSE limit[1])
            sql == table_sql(table_name)
            t1  == <<Stage("auth", require_api_key(HTTP_API_KEY, api_key))>>
            t2  == Append(t1, Stage("validate", VALID_TABLE_RE_match(table_name)))
            t3  == Append(t2, Stage("execute", outcome.ok))
        IN  /\ request' = [kind |-> "http_table", api_key |-> api_key,
                           table_name |-> table_name, limit |-> limit]
            /\ IF ~require_api_key(HTTP_API_KEY, api_key)
               THEN Finish(t1, <<>>, <<HttpError(401, MSG_API_KEY)>>)
               ELSE IF ~VALID_TABLE_RE_match(table_name)
               THEN Finish(t2, <<>>, <<HttpError(400, MSG_BAD_TABLE)>>)
               ELSE IF ~outcome.ok
               THEN Finish(t3, <<Call(sql, <<lim>>)>>, <<HttpError(500, outcome.error)>>)
               ELSE Finish(t3, <<Call(sql, <<lim>>)>>,
                           <<HttpOk(outcome.cols, outcome.rows, lim)>>)
    /\ UNCHANGED <<HTTP_API_KEY, TELEGRAM_ALLOWED, ALLOWED_CHAT_IDS>>

\* http_query with the query gate left out
http_query_unchecked(payloads, outcomes) ==
    /\ pc = "idle"
    /\ \E api_key \in ApiKeyHeaders, payload \in payloads, outcome \in outcomes :
        LET sql == strip(payload)
            t1  == <<Stage("auth", require_api_key(HTTP_API_KEY, api_key))>>
            t3  == Append(t1, Stage("execute", outcome.ok))
        IN  /\ request' = [kind |-> "http_query", api_key |-> api_key, sql |-> payload]
            /\ IF ~require_api_key(HTTP_API_KEY, api_key)
               THEN Finish(t1, <<>>, <<HttpError(401, MSG_API_KEY)>>)
               ELSE IF ~outcome.ok
               THEN Finish(t3, <<Call(sql, <<>>)>>, <<HttpError(500, outcome.error)>>)
               ELSE Finish(t3, <<Call(sql, <<>>)>>,
                           <<HttpOk(outcome.cols, outcome.rows, QUERY_MAX_ROWS)>>)
    /\ UNCHANGED <<HTTP_API_KEY, TELEGRAM_ALLOWED, ALLOWED_CHAT_IDS>>

\* http_query(payload, api_key)
http_query(payloads, outcomes) ==
    /\ pc = "idle"
    /\ \E api_key \in ApiKeyHeaders, payload \in payloads, outcome \in outcomes :
        LET sql == strip(payload)
            t1  == <<Stage("auth", require_api_key(HTTP_API_KEY, api_key))>>
            t2  == Append(t1, Stage("validate", query_is_safe(sql)))
            t3  == Append(t2, Stage("execute", outcome.ok))
        IN  /\ request' = [kind |-> "http_query", api_key |-> api_key, sql |-> payload]
            /\ IF ~require_api_key(HTTP_API_KEY, api_key)
               THEN Finish(t1, <<>>, <<HttpError(401, MSG_API_KEY)>>)
               ELSE IF ~query_is_safe(sql)
               THEN Finish(t2, <<>>, <<HttpError(400, MSG_BAD_QUERY)>>)
               ELSE IF ~outcome.ok
               THEN Finish(t3, <<Call(sql, <<>>)>>, <<HttpError(500, outcome.error)>>)
               ELSE Finish(t3, <<Call(sql, <<>>)>>,
                           <<HttpOk(outcome.cols, outcome.rows, QUERY_MAX_ROWS)>>)
    /\ UNCHANGED <<HTTP_API_KEY, TELEGRAM_ALLOWED, ALLOWED_CHAT_IDS>>

\* tg_start(update, context)
tg_start ==
    /\ pc = "idle"
    /\ \E chat_id \in ChatIds :
        LET t1 == <<Stage("auth", is_chat_allowed(ALLOWED_CHAT_IDS, chat_id))>>
        IN  /\ request' = [kind |-> "tg_start", chat_id |-> chat_id]
            /\ IF ~is_chat_allowed(ALLOWED_CHAT_IDS, chat_id)
               THEN Finish(t1, <<>>, <<ChatReply(MSG_DENIED)>>)
               ELSE Finish(t1, <<>>, <<ChatReply(MSG_START)>>)
    /\ UNCHANGED <<HTTP_API_KEY, TELEGRAM_ALLOWED, ALLOWED_CHAT_IDS>>

\* tg_table(update, context)
tg_table(arglists, outcomes) ==
    /\ pc = "idle"
    /\ \E chat_id \in ChatIds, args \in arglists, outcome \in outcomes :
        LET table  == args[1]
            parsed == int_parse(args[2])
            limit  == IF Len(args) > 1 THEN clamp_limit(parsed.val) ELSE DEFAULT_LIMIT
            sql    == table_sql(table)
            t1     == <<Stage("auth", is_chat_allowed(ALLOWED_CHAT_IDS, chat_id))>>
            t2     == Append(t1, Stage("validate", VALID_TABLE_RE_match(table)))
            t3     == Append(t2, Stage("execute", outcome.ok))
        IN  /\ request' = [kind |-> "tg_table", chat_id |-> chat_id, args |-> args]
            /\ IF ~is_chat_allowed(ALLOWED_CHAT_IDS, chat_id)
               THEN Finish(t1, <<>>, <<ChatReply(MSG_DENIED)>>)
               ELSE IF args = <<>>
               THEN Finish(t1, <<>>, <<ChatReply(MSG_TABLE_USAGE)>>)
               ELSE IF ~VALID_TABLE_RE_match(table)
               THEN Finish(t2, <<>>, <<ChatReply(MSG_BAD_TABLE)>>)
               ELSE IF Len(args) > 1 /\ ~parsed.ok
               THEN Finish(t2, <<>>, <<ChatReply(MSG_BAD_LIMIT)>>)
               ELSE IF ~outcome.ok
               THEN Finish(t3, <<Call(sql, <<limit>>)>>,
                           <<ChatReply(MSG_TABLE_ERROR \o outcome.error)>>)
               ELSE ToFormat(t3, <<Call(sql, <<limit>>)>>, outcome.cols, outcome.rows, limit)
    /\ UNCHANGED <<HTTP_API_KEY, TELEGRAM_ALLOWED, ALLOWED_CHAT_IDS>>

\* tg_query(update, context)
tg_query(texts, outcomes) ==
    /\ pc = "idle"
    /\ \E chat_id \in ChatIds, text \in texts, outcome \in outcomes :
        LET payload == strip(partition_tail(text))
            t1      == <<Stage("auth", is_chat_allowed(ALLOWED_CHAT_IDS, chat_id))>>
            t2      == Append(t1, Stage("validate", query_is_safe(payload)))
            t3      == Append(t2, Stage("execute", outcome.ok))
        IN  /\ request' = [kind |-> "tg_query", chat_id |-> chat_id, text |-> text]
            /\ IF ~is_chat_allowed(ALLOWED_CHAT_IDS, chat_id)
               THEN Finish(t1, <<>>, <<ChatReply(MSG_DENIED)>>)
               ELSE IF payload = <<>>
               THEN Finish(t1, <<>>, <<ChatReply(MSG_QUERY_USAGE)>>)
               ELSE IF ~query_is_safe(payload)
               THEN Finish(t2, <<>>, <<ChatReply(MSG_BAD_QUERY)>>)
               ELSE IF ~outcome.ok
               THEN Finish(t3, <<Call(payload, <<>>)>>,
                           <<ChatReply(MSG_QUERY_ERROR \o outcome.error)>>)
               ELSE ToFormat(t3, <<Call(payload, <<>>)>>, outcome.cols, outcome.rows,
                             QUERY_MAX_ROWS)
    /\ UNCHANGED <<HTTP_API_KEY, TELEGRAM_ALLOWED, ALLOWED_CHAT_IDS>>

\* out = format_results(cols, rows, max_rows); chunk_size = 3800
FormatResults ==
    /\ pc = "format"
    /\ lines' = format_lines(cols, rows, max_rows)
    /\ out' = format_results(cols, rows, max_rows)
    /\ chunk_size' = CHUNK_SIZE
    /\ i' = 0
    /\ sent' = <<>>
    /\ pc' = "send"
    /\ UNCHANGED <<HTTP_API_KEY, TELEGRAM_ALLOWED, ALLOWED_CHAT_IDS, request, trace,
                   db_calls, replies, cols, rows, max_rows, conc>>

\* one pass of: for i in range(0, len(out), chunk_size): reply_text(<pre>...</pre>)
SendChunk ==
    /\ pc = "send"
    /\ i < Len(out)
    /\ replies' = Append(replies, ChatHtmlReply(slice(out, i, chunk_size)))
    /\ sent' = Append(sent, [offset |-> i, piece |-> slice(out, i, chunk_size)])
    /\ i' = i + chunk_size
    /\ UNCHANGED <<HTTP_API_KEY, TELEGRAM_ALLOWED, ALLOWED_CHAT_IDS, pc, request, trace,
                   db_calls, cols, rows, max_rows, lines, out, chunk_size, conc>>

\* the range is exhausted: the handler returns
SendDone ==
    /\ pc = "send"
    /\ i >= Len(out)
    /\ pc' = "done"
    /\ UNCHANGED <<HTTP_API_KEY, TELEGRAM_ALLOWED, ALLOWED_CHAT_IDS, request, trace,
                   db_calls, replies, cols, rows, max_rows, lines, out, chunk_size, i, sent,
                   conc>>

(***************************************************************************)
(* Requests handled side by side: tasks, database connections, and the     *)
(* thread that drives the handlers                                         *)
(***************************************************************************)
\* most requests in flight at once
MaxTasks == 2

Tasks == 1..MaxTasks

\* the handlers of Main.py that call run_query
MainPyHandlers == {"http_table", "http_query", "tg_table", "tg_query"}

\* the handlers of main.py followed here
InvestigatorHandlers == {"search_user", "analyze_user", "search_user_by_mention"}

\* the handlers of telegram_db_bot.py that reach the database
DbBotHandlers == {"search_cmd", "count_cmd"}

\* statement texts of the requests
Statements == {<<"q","1">>, <<"q","2">>}

NoResult == [ok |-> FALSE, from |-> "none", sql |-> <<>>, empty |-> TRUE]

\* the exception of a failed connect or statement; str(e) is its text
Failure(from, sql) == [ok |-> FALSE, from |-> from, sql |-> sql, empty |-> TRUE]

\* what cur.fetchall() / read_sql_query gave for the statement
Fetched(sql, empty) == [ok |-> TRUE, from |-> "execute", sql |-> sql, empty |-> empty]

\* a request that has not arrived yet
NewTask == [kind |-> "none", at |-> "new", sql |-> <<>>, c |-> 0, rejected |-> FALSE,
            result |-> NoResult, replies |-> <<>>]

\* no request has arrived, no connection was opened, the thread is free
NoTasks ==
    /\ program = "Main.py"
    /\ tasks = [t \in Tasks |-> NewTask]
    /\ conns = <<>>
    /\ loop = 0

\* a connection taken from a shared pool of open connections when there is one
connect_pooled(cs, t) ==
    IF \E k \in 1..Len(cs) : cs[k].open
    THEN [conns |-> cs, c |-> CHOOSE k \in 1..Len(cs) : cs[k].open]
    ELSE [conns |-> Append(cs, [opened_by |-> t, used_by |-> {}, open |-> TRUE,
                                statements |-> <<>>]),
          c |-> Len(cs) + 1]

\* conn = pg8000.connect(...) (psycopg2.connect in the other entry points):
\* a new connection, held in a local of the call
connect(cs, t) ==
    [conns |-> Append(cs, [opened_by |-> t, used_by |-> {}, open |-> TRUE,
                           statements |-> <<>>]),
     c |-> Len(cs) + 1]

\* cur.execute(sql, params) / read_sql_query(query, conn) of task t on connection c
execute(cs, c, t, sql) ==
    [cs EXCEPT ![c].used_by = @ \cup {t}, ![c].statements = Append(@, sql)]

\* the connection is closed only when the statement succeeded
release_on_success(cs, c, ok) ==
    IF ok THEN [cs EXCEPT ![c].open = FALSE] ELSE cs

\* finally: conn.close() (conn.close() on both paths in main.py): closed
\* whether the statement succeeded (ok) or raised
release(cs, c, ok) == [cs EXCEPT ![c].open = FALSE]

\* replies of the handlers, by what they tell the caller
Rejection == [kind |-> "rejection", detail |-> <<>>]

Progress == [kind |-> "progress", detail |-> <<>>]

GenericError == [kind |-> "error", detail |-> <<>>]

ResultReply(result) == [kind |-> "result", detail |-> result]

\* an error reply with a fixed text, whatever the exception
error_reply_no_text(e) == GenericError

\* HTTPException(500, detail=str(e)) / reply_text(f"Erro ao consultar: {e}")
error_reply(e) == [kind |-> "error", detail |-> e]

\* Main.py: the handler up to its await run_query(...): the access gate and
\* the validation either answer the caller or let the call go to a worker
handler_begin(t) ==
    /\ program = "Main.py" /\ loop = 0
    /\ tasks[t].at = "new"
    /\ \E kind \in MainPyHandlers, sql \in Statements, accepted \in BOOLEAN :
          tasks' = [tasks EXCEPT ![t] =
              IF accepted
              THEN [@ EXCEPT !.kind = kind, !.sql = sql, !.at = "submitted"]
              ELSE [@ EXCEPT !.kind = kind, !.sql = sql, !.at = "done",
                             !.rejected = TRUE, !.replies = <<Rejection>>]]
    /\ UNCHANGED <<single, program, conns, loop>>

\* _sync_run_query in its worker thread: conn = pg8000.connect(...)
sync_connect(t) ==
    /\ program = "Main.py"
    /\ tasks[t].at = "submitted"
    /\ \E ok \in BOOLEAN :
          IF ok
          THEN /\ conns' = connect(conns, t).conns
               /\ tasks' = [tasks EXCEPT ![t].c = connect(conns, t).c,
                                         ![t].at = "connected"]
          ELSE /\ conns' = conns
               /\ tasks' = [tasks EXCEPT ![t].result = Failure("connect", <<>>),
                                         ![t].at = "returned"]
    /\ UNCHANGED <<single, program, loop>>

\* _sync_run_query: the try block, cur.execute ... return cols, rows
sync_execute(t) ==
    /\ program = "Main.py"
    /\ tasks[t].at = "connected"
    /\ \E ok \in BOOLEAN, empty \in BOOLEAN :
          /\ conns' = execute(conns, tasks[t].c, t, tasks[t].sql)
          /\ tasks' = [tasks EXCEPT
                ![t].result = IF ok THEN Fetched(tasks[t].sql, empty)
                              ELSE Failure("execute", tasks[t].sql),
                ![t].at = "executed"]
    /\ UNCHANGED <<single, program, loop>>

\* _sync_run_query: finally: conn.close(); the worker's future is done
sync_finally(t) ==
    /\ program = "Main.py"
    /\ tasks[t].at = "executed"
    /\ conns' = release(conns, tasks[t].c, tasks[t].result.ok)
    /\ tasks' = [tasks EXCEPT ![t].at = "returned"]
    /\ UNCHANGED <<single, program, loop>>

\* Main.py: the handler resumes from await run_query(...) with the result or
\* the exception of its call and answers the caller
handler_resume(t) ==
    /\ program = "Main.py" /\ loop = 0
    /\ tasks[t].at = "returned"
    /\ tasks' = [tasks EXCEPT
          ![t].replies = IF tasks[t].result.ok
                         THEN <<ResultReply(tasks[t].result)>>
                         ELSE <<error_reply(tasks[t].result)>>,
          ![t].at = "done"]
    /\ UNCHANGED <<single, program, conns, loop>>

\* reply_text(...) added to the replies of a task record
said(task, reps) == [task EXCEPT !.replies = @ \o reps]

\* main.py: search_user / analyze_user up to their progress reply (no
\* arguments: the usage reply); search_user_by_mention has neither
investigator_begin(t) ==
    /\ program = "main.py" /\ loop = 0
    /\ tasks[t].at = "new"
    /\ \E kind \in InvestigatorHandlers, sql \in Statements, has_args \in BOOLEAN :
          tasks' = [tasks EXCEPT ![t] =
              IF kind = "search_user_by_mention"
              THEN [@ EXCEPT !.kind = kind, !.sql = sql, !.at = "submitted"]
              ELSE IF has_args
              THEN [@ EXCEPT !.kind = kind, !.sql = sql, !.at = "submitted",
                             !.replies = <<Progress>>]
              ELSE [@ EXCEPT !.kind = kind, !.sql = sql, !.at = "done",
                             !.rejected = TRUE, !.replies = <<Rejection>>]]
    /\ UNCHANGED <<single, program, conns, loop>>

\* main.py: conn = self.get_db_connection(), called in the handler itself;
\* None when psycopg2.connect raises: "Erro de conexão" is replied, or, in
\* search_user_by_mention, the handler just returns
get_db_connection(t) ==
    /\ program = "main.py" /\ loop = 0
    /\ tasks[t].at = "submitted"
    /\ \E ok \in BOOLEAN :
          IF ok
          THEN /\ conns' = connect(conns, t).conns
               /\ tasks' = [tasks EXCEPT ![t].c = connect(conns, t).c,
                                         ![t].at = "connected"]
               /\ loop' = t
          ELSE /\ conns' = conns
               /\ tasks' = [tasks EXCEPT ![t] =
                     [said(@, IF tasks[t].kind = "search_user_by_mention"
                              THEN <<>> ELSE <<GenericError>>)
                         EXCEPT !.result = Failure("connect", <<>>), !.at = "done"]]
               /\ loop' = 0
    /\ UNCHANGED <<single, program>>

\* main.py: pd.read_sql_query(query, conn, ...), called in the handler itself;
\* analyze_user runs a second statement when the first found the user, and
\* replies "não encontrado" before closing when it did not
read_sql_query(t) ==
    /\ program = "main.py" /\ loop = t
    /\ tasks[t].at = "connected"
    /\ \E ok \in BOOLEAN, empty \in BOOLEAN :
          LET first == conns[tasks[t].c].statements = <<>>
              res   == IF ok THEN Fetched(tasks[t].sql, empty)
                       ELSE Failure("execute", tasks[t].sql)
          IN  /\ conns' = execute(conns, tasks[t].c, t, tasks[t].sql)
              /\ tasks' = [tasks EXCEPT ![t] =
                    IF tasks[t].kind = "analyze_user" /\ first /\ ok /\ ~empty
                    THEN @
                    ELSE IF tasks[t].kind = "analyze_user" /\ first /\ ok /\ empty
                    THEN [said(@, <<ResultReply(res)>>) EXCEPT !.result = res,
                                                                !.at = "executed"]
                    ELSE [@ EXCEPT !.result = res, !.at = "executed"]]
    /\ UNCHANGED <<single, program, loop>>

\* main.py: conn.close() after the statements or in the except clause, then
\* the reply: the result (search_user_by_mention: only when rows were found)
\* or "Erro: {e}" (search_user_by_mention: nothing)
investigator_finish(t) ==
    /\ program = "main.py" /\ loop = t
    /\ tasks[t].at = "executed"
    /\ conns' = release(conns, tasks[t].c, tasks[t].result.ok)
    /\ tasks' = [tasks EXCEPT ![t] =
          [said(@, IF tasks[t].kind = "search_user_by_mention"
                   THEN IF tasks[t].result.ok /\ ~tasks[t].result.empty
                        THEN <<ResultReply(tasks[t].result)>> ELSE <<>>
                   ELSE IF ~tasks[t].result.ok
                   THEN <<error_reply(tasks[t].result)>>
                   ELSE IF tasks[t].kind = "analyze_user" /\ tasks[t].result.empty
                   THEN <<>>
                   ELSE <<ResultReply(tasks[t].result)>>)
              EXCEPT !.at = "done"]]
    /\ loop' = 0
    /\ UNCHANGED <<single, program>>

\* telegram_db_bot.py: search_cmd / count_cmd up to the call of search_db /
\* count_db, in the dispatcher's thread (no arguments: the usage reply)
cmd_begin(t) ==
    /\ program = "telegram_db_bot.py" /\ loop = 0
    /\ tasks[t].at = "new"
    /\ \E kind \in DbBotHandlers, sql \in Statements, has_args \in BOOLEAN :
          IF has_args
          THEN /\ tasks' = [tasks EXCEPT ![t] =
                     [@ EXCEPT !.kind = kind, !.sql = sql, !.at = "submitted",
                               !.replies = IF kind = "search_cmd" THEN <<Progress>>
                                           ELSE <<>>]]
               /\ loop' = t
          ELSE /\ tasks' = [tasks EXCEPT ![t] =
                     [@ EXCEPT !.kind = kind, !.sql = sql, !.at = "done",
                               !.rejected = TRUE, !.replies = <<Rejection>>]]
               /\ loop' = 0
    /\ UNCHANGED <<single, program, conns>>

\* telegram_db_bot.py: conn = get_connection() in search_db / count_db
get_connection(t) ==
    /\ program = "telegram_db_bot.py" /\ loop = t
    /\ tasks[t].at = "submitted"
    /\ \E ok \in BOOLEAN :
          IF ok
          THEN /\ conns' = connect(conns, t).conns
               /\ tasks' = [tasks EXCEPT ![t].c = connect(conns, t).c,
                                         ![t].at = "connected"]
          ELSE /\ conns' = conns
               /\ tasks' = [tasks EXCEPT ![t].result = Failure("connect", <<>>),
                                         ![t].at = "returned"]
    /\ UNCHANGED <<single, program, loop>>

\* telegram_db_bot.py: the try block of search_db / count_db
cur_execute(t) ==
    /\ program = "telegram_db_bot.py" /\ loop = t
    /\ tasks[t].at = "connected"
    /\ \E ok \in BOOLEAN, empty \in BOOLEAN :
          /\ conns' = execute(conns, tasks[t].c, t, tasks[t].sql)
          /\ tasks' = [tasks EXCEPT
                ![t].result = IF ok THEN Fetched(tasks[t].sql, empty)
                              ELSE Failure("execute", tasks[t].sql),
                ![t].at = "executed"]
    /\ UNCHANGED <<single, program, loop>>

\* telegram_db_bot.py: finally: conn.close() in search_db / count_db
db_finally(t) ==
    /\ program = "telegram_db_bot.py" /\ loop = t
    /\ tasks[t].at = "executed"
    /\ conns' = release(conns, tasks[t].c, tasks[t].result.ok)
    /\ tasks' = [tasks EXCEPT ![t].at = "returned"]
    /\ UNCHANGED <<single, program, loop>>

\* telegram_db_bot.py: search_cmd / count_cmd after search_db / count_db:
\* "Erro ao consultar o banco de dados." on an exception, else the result
cmd_finish(t) ==
    /\ program = "telegram_db_bot.py" /\ loop = t
    /\ tasks[t].at = "returned"
    /\ tasks' = [tasks EXCEPT ![t] =
          [said(@, IF tasks[t].result.ok THEN <<ResultReply(tasks[t].result)>>
                   ELSE <<GenericError>>)
              EXCEPT !.at = "done"]]
    /\ loop' = 0
    /\ UNCHANGED <<single, program, conns>>

\* one of the three entry points is started; no request has arrived
InitConc ==
    /\ HTTP_API_KEY = None
    /\ TELEGRAM_ALLOWED = None
    /\ ALLOWED_CHAT_IDS = parse_allowed(TELEGRAM_ALLOWED)
    /\ pc = "idle"
    /\ request = NoRequest
    /\ trace = <<>> /\ db_calls = <<>> /\ replies = <<>>
    /\ cols = <<>> /\ rows = <<>> /\ max_rows = 0
    /\ lines = <<>> /\ out = <<>> /\ chunk_size = CHUNK_SIZE /\ i = 0 /\ sent = <<>>
    /\ program \in {"Main.py", "main.py", "telegram_db_bot.py"}
    /\ tasks = [t \in Tasks |-> NewTask]
    /\ conns = <<>>
    /\ loop = 0

NextConc ==
    \/ \E t \in Tasks : handler_begin(t)
    \/ \E t \in Tasks : sync_connect(t)
    \/ \E t \in Tasks : sync_execute(t)
    \/ \E t \in Tasks : sync_finally(t)
    \/ \E t \in Tasks : handler_resume(t)
    \/ \E t \in Tasks : investigator_begin(t)
    \/ \E t \in Tasks : get_db_connection(t)
    \/ \E t \in Tasks : read_sql_query(t)
    \/ \E t \in Tasks : investigator_finish(t)
    \/ \E t \in Tasks : cmd_begin(t)
    \/ \E t \in Tasks : get_connection(t)
    \/ \E t \in Tasks : cur_execute(t)
    \/ \E t \in Tasks : db_finally(t)
    \/ \E t \in Tasks : cmd_finish(t)

SpecConc == InitConc /\ [][NextConc]_vars

(***************************************************************************)
(* The gateway: the module is imported (the configuration is read and the   *)
(* allow-list parsed), then requests are handled                            *)
(***************************************************************************)
Idle ==
    /\ pc = "idle"
    /\ request = NoRequest
    /\ trace = <<>> /\ db_calls = <<>> /\ replies = <<>>
    /\ cols = <<>> /\ rows = <<>> /\ max_rows = 0
    /\ lines = <<>> /\ out = <<>> /\ chunk_size = CHUNK_SIZE /\ i = 0 /\ sent = <<>>
    /\ NoTasks

\* the framework is done with the request: the handler's locals are gone
\* and the next request can be taken
Return ==
    /\ pc = "done"
    /\ pc' = "idle"
    /\ request' = NoRequest
    /\ trace' = <<>> /\ db_calls' = <<>> /\ replies' = <<>>
    /\ cols' = <<>> /\ rows' = <<>> /\ max_rows' = 0
    /\ lines' = <<>> /\ out' = <<>> /\ chunk_size' = CHUNK_SIZE /\ i' = 0 /\ sent' = <<>>
    /\ UNCHANGED conc
    /\ UNCHANGED <<HTTP_API_KEY, TELEGRAM_ALLOWED, ALLOWED_CHAT_IDS>>

Init ==
    /\ HTTP_API_KEY \in ApiKeyConfigs
    /\ TELEGRAM_ALLOWED \in AllowedConfigs
    /\ ALLOWED_CHAT_IDS = parse_allowed(TELEGRAM_ALLOWED)
    /\ Idle

Next ==
    \/ http_table(HttpTableNames, HttpLimits, DbOutcomes)
    \/ http_query(QueryTexts, DbOutcomes)
    \/ tg_start
    \/ tg_table(TgTableArgs, DbOutcomes)
    \/ tg_query(TgQueryTexts, DbOutcomes)
    \/ FormatResults
    \/ SendChunk
    \/ SendDone
    \/ Return

Spec == Init /\ [][Next]_vars

(***************************************************************************)
(* Properties of the handlers                                              *)
(***************************************************************************)
Handled == request.kind # "none"

IsHttp == request.kind \in {"http_table", "http_query"}

IsChat == request.kind \in {"tg_start", "tg_table", "tg_query"}

\* a shared secret is configured: the variable is set and not empty
KeyConfigured == HTTP_API_KEY # None /\ HTTP_API_KEY # <<>>

\* the text http_query and tg_query hand to the query gate
GateInput ==
    IF request.kind = "http_query" THEN strip(request.sql)
    ELSE strip(partition_tail(request.text))

\* the request's query text fails the query gate, or its table name fails
\* the identifier check
InputRejected ==
    \/ request.kind \in {"http_query", "tg_query"} /\ ~query_is_safe(GateInput)
    \/ request.kind = "http_table" /\ ~VALID_TABLE_RE_match(request.table_name)
    \/ /\ request.kind = "tg_table"
       /\ request.args # <<>>
       /\ ~VALID_TABLE_RE_match(request.args[1])

PlainChatReply(r) == r.kind = "chat" /\ r.parse_mode = "None"

\* every execute stage comes after a validate stage that passed, and the
\* database is called exactly when the handler reached the execute stage
ValidatedBeforeExecute ==
    /\ \A k \in 1..Len(trace) :
          trace[k].stage = "execute" =>
              \E j \in 1..(k - 1) : trace[j].stage = "validate" /\ trace[j].ok
    /\ (db_calls # <<>>) <=> (\E k \in 1..Len(trace) : trace[k].stage = "execute")
    /\ Len(db_calls) <= 1

\* C3 as stated: a request of http_query, tg_query, http_table or tg_table
\* whose query text fails the query gate, or whose table name fails the
\* identifier check, makes no database call and is answered HTTP 400 or
\* with a plain chat reply.
C3_RejectedIs400 ==
    InputRejected =>
        /\ db_calls = <<>>
        /\ Len(replies) = 1
        /\ IsHttp => replies[1].status = 400
        /\ IsChat => PlainChatReply(replies[1])

\* C3 amended: such a request makes no database call and gets exactly one
\* rejection: on HTTP 400 when the credential passed the access gate and 401
\* when the access gate denied it first, on chat a plain reply; and in every
\* request the database is called only after validation passed.
C3_ValidationPrecedesExecution ==
    /\ ValidatedBeforeExecute
    /\ InputRejected =>
          /\ db_calls = <<>>
          /\ Len(replies) = 1
          /\ IsHttp =>
                \/ replies[1].status = 400
                   /\ (KeyConfigured => request.api_key = HTTP_API_KEY)
                \/ replies[1].status = 401
                   /\ KeyConfigured /\ request.api_key # HTTP_API_KEY
          /\ IsChat => PlainChatReply(replies[1])

C3_Witness ==
    /\ InputRejected
    /\ request.kind = "http_query"
    /\ KeyConfigured
    /\ replies[1].status = 400

HasStage(name) == \E k \in 1..Len(trace) : trace[k].stage = name

\* C5: with a shared secret configured, a request to /table or /query whose
\* credential header is absent or differs from the secret gets 401, is not
\* validated and makes no database call, and a request whose credential
\* equals the secret goes on to validation; with no secret configured every
\* request goes on to validation whatever its credential.
C5_HttpAccessGate ==
    (Handled /\ IsHttp) =>
        IF KeyConfigured /\ request.api_key # HTTP_API_KEY
        THEN /\ Len(replies) = 1 /\ replies[1].status = 401
             /\ ~HasStage("validate")
             /\ db_calls = <<>>
        ELSE /\ HasStage("validate")
             /\ Len(replies) = 1 /\ replies[1].status # 401

C5_Witness ==
    /\ request.kind = "http_table"
    /\ KeyConfigured
    /\ request.api_key = None
    /\ ~VALID_TABLE_RE_match(request.table_name)
    /\ replies[1].status = 401

\* the allow-list value is configured: the variable is set and not empty
AllowListConfigured == TELEGRAM_ALLOWED # None /\ TELEGRAM_ALLOWED # <<>>

\* the pieces of the configured value between commas that are not blank
AllowListPieces ==
    SelectSeq(split_comma(TELEGRAM_ALLOWED), LAMBDA x : strip(x) # <<>>)

\* every piece of the configured value is an integer
AllowListParses ==
    \A k \in 1..Len(AllowListPieces) : int_parse(AllowListPieces[k]).ok

\* the integers the configured value lists
AllowListMembers ==
    {int_parse(AllowListPieces[k]).val : k \in 1..Len(AllowListPieces)}

ChatDenied ==
    /\ replies = <<ChatReply(MSG_DENIED)>>
    /\ db_calls = <<>>
    /\ pc = "done"

ChatAllowed ==
    /\ trace[1] = Stage("auth", TRUE)
    /\ \A k \in 1..Len(replies) : replies[k].text # MSG_DENIED

\* C6: with an allow-list value configured, tg_start, tg_table and tg_query
\* deny a chat id that is not in the configured list with exactly one
\* "Acesso negado." reply and no database call, and allow one that is in
\* it; a configured value that does not parse into integers gives the empty
\* allow-set and every chat id is denied; with no value configured every
\* chat id is allowed.
C6_ChatAccessGate ==
    /\ AllowListConfigured /\ ~AllowListParses =>
          ALLOWED_CHAT_IDS = [is_none |-> FALSE, ids |-> {}]
    /\ (Handled /\ IsChat) =>
          IF ~AllowListConfigured THEN ChatAllowed
          ELSE IF ~AllowListParses THEN ChatDenied
          ELSE IF request.chat_id \in AllowListMembers THEN ChatAllowed
          ELSE ChatDenied

C6_Witness ==
    /\ request.kind = "tg_query"
    /\ AllowListConfigured /\ ~AllowListParses
    /\ request.chat_id = 12
    /\ 12 \in {int_parse(x).val : x \in {AllowListPieces[k] : k \in 1..Len(AllowListPieces)}}
    /\ ChatDenied

\* the limit the request supplies: none, or an int
SuppliedLimit ==
    IF request.kind = "http_table" THEN request.limit
    ELSE IF Len(request.args) > 1 THEN <<int_parse(request.args[2]).val>>
    ELSE <<>>

\* C10: the limit http_table and tg_table bind as the parameter of the query
\* is in [1,1000]: the supplied limit when that is in [1,1000], 1 when it is
\* below 1, 1000 when it is above 1000, 20 when none is supplied; and the
\* query it is bound to is the call the handler makes.
C10_LimitClamped ==
    (request.kind \in {"http_table", "tg_table"} /\ db_calls # <<>>) =>
        LET bound == db_calls[1].params
        IN  /\ Len(bound) = 1
            /\ bound[1] >= 1 /\ bound[1] <= 1000
            /\ SuppliedLimit = <<>> => bound[1] = 20
            /\ SuppliedLimit # <<>> =>
                  /\ SuppliedLimit[1] < 1 => bound[1] = 1
                  /\ SuppliedLimit[1] > 1000 => bound[1] = 1000
                  /\ (SuppliedLimit[1] >= 1 /\ SuppliedLimit[1] <= 1000) =>
                        bound[1] = SuppliedLimit[1]

C10_Witness ==
    /\ request.kind = "tg_table"
    /\ Len(request.args) > 1
    /\ int_parse(request.args[2]).val = 5000
    /\ db_calls # <<>>
    /\ db_calls[1].params = <<1000>>

(***************************************************************************)
(* The query gate on many texts                                            *)
(***************************************************************************)
\* most fragments a query text is put together from
MaxFrags == 2

QueryFrags ==
    {<<"s","e","l","e","c","t"," ">>, <<"S","E","L","E","C","T"," ">>, <<" ","s","e","l","e","c","t">>, <<"S","e","L","e","C","t","\n">>, <<"x">>, <<" ">>, <<";">>, <<"1",";","2">>,
     <<"d","r","o","p"," ","t">>, <<"D","R","O","P"," ","t">>, <<"d","r","o","p">>, <<"d","e","l","e","t","e"," ","t">>, <<"D","e","l","e","t","e"," "," ","t">>, <<"u","p","d","a","t","e"," ","t">>, <<"u","p","d","a","t","e","d","_","a","t">>,
     <<"i","n","s","e","r","t"," ","t">>, <<"t","r","u","n","c","a","t","e"," ","t">>, <<"a","l","t","e","r"," ","t">>, <<"c","r","e","a","t","e"," ","t">>, <<"C","R","E","A","T","E">>}

RECURSIVE FragTexts(_)
FragTexts(n) ==
    IF n = 0 THEN {<<>>}
    ELSE LET shorter == FragTexts(n - 1)
         IN  shorter \cup {t \o f : t \in shorter, f \in QueryFrags}

\* texts of MAX_QUERY_LENGTH - 1, MAX_QUERY_LENGTH and MAX_QUERY_LENGTH + 1 characters
LongTexts ==
    {<<"s","e","l","e","c","t"," ">> \o Rep("x", MAX_QUERY_LENGTH - 7 + d) : d \in {0 - 1, 0, 1}}

WideQueryTexts == FragTexts(MaxFrags) \cup LongTexts

WideTgQueryTexts == {<<"/","q","u","e","r","y"," ">> \o q : q \in WideQueryTexts}

GateOutcomes == {[ok |-> TRUE, cols |-> SampleCols, rows |-> SampleRows(1)]} \cup DbErrors

\* no secret and no allow-list configured
InitGate ==
    /\ HTTP_API_KEY = None
    /\ TELEGRAM_ALLOWED = None
    /\ ALLOWED_CHAT_IDS = parse_allowed(TELEGRAM_ALLOWED)
    /\ Idle

NextGate ==
    \/ http_query(WideQueryTexts, GateOutcomes)
    \/ tg_query(WideTgQueryTexts, GateOutcomes)
    \/ FormatResults
    \/ SendChunk
    \/ SendDone
    \/ Return

SpecGate == InitGate /\ [][NextGate]_vars

\* the handler called the query gate on GateInput, and this was its answer
GateCalled == request.kind \in {"http_query", "tg_query"} /\ HasStage("validate")

GateAnswer == trace[CHOOSE k \in 1..Len(trace) : trace[k].stage = "validate"].ok

HasChar(s, c) == \E k \in 1..Len(s) : s[k] = c

\* s begins with select once leading whitespace is trimmed and it is lower-cased
BeginsWithSelect(s) == startswith(lower(lstrip(s)), <<"s","e","l","e","c","t">>)

MutatingWords == {<<"d","r","o","p">>, <<"d","e","l","e","t","e">>, <<"u","p","d","a","t","e">>, <<"i","n","s","e","r","t">>, <<"t","r","u","n","c","a","t","e">>, <<"a","l","t","e","r">>, <<"c","r","e","a","t","e">>}

\* s contains w, compared case-insensitively
ContainsWord(s, w) == contains(lower(s), lower(w))

\* one of the rejection conditions of the query gate holds of s
MustReject(s) ==
    \/ s = <<>>
    \/ Len(s) > 3000
    \/ HasChar(s, ";")
    \/ ~BeginsWithSelect(s)
    \/ \E w \in MutatingWords : ContainsWord(s, w \o <<" ">>)

\* C1: query_is_safe answers False for a text that is empty, longer than
\* 3000 characters, contains ';', does not begin with select (leading
\* whitespace trimmed, lower-cased) or contains, in any case, one of drop,
\* delete, update, insert, truncate, alter, create followed by a space; and
\* no text that http_query or tg_query passes to run_query meets any of
\* these conditions.
C1_GateSound ==
    /\ GateCalled => (MustReject(GateInput) => ~GateAnswer)
    /\ request.kind \in {"http_query", "tg_query"} =>
          \A k \in 1..Len(db_calls) : ~MustReject(db_calls[k].sql)

C1_Witness ==
    /\ GateCalled
    /\ request.kind = "http_query"
    /\ BeginsWithSelect(GateInput)
    /\ ContainsWord(GateInput, <<"C","R","E","A","T","E"," ">>)
    /\ ~GateAnswer
    /\ db_calls = <<>>

\* C2 as stated: a text the query gate accepts contains none of delete,
\* update, insert, truncate, alter, create, drop as a substring, compared
\* case-insensitively.
C2_NoMutatingWord ==
    (GateCalled /\ GateAnswer) =>
        \A w \in MutatingWords : ~ContainsWord(GateInput, w)

\* C2 amended: a text the query gate accepts contains none of delete,
\* update, insert, truncate, alter, create, drop followed by a space,
\* compared case-insensitively (the word alone, as in "updated_at" or at the
\* end of the text, is accepted).
C2_NoMutatingWordAndSpace ==
    (GateCalled /\ GateAnswer) =>
        \A w \in MutatingWords : ~ContainsWord(GateInput, w \o <<" ">>)

C2_Witness ==
    /\ GateCalled /\ GateAnswer
    /\ ContainsWord(GateInput, <<"u","p","d","a","t","e">>)
    /\ db_calls # <<>>

(***************************************************************************)
(* The identifier check on many tokens                                     *)
(***************************************************************************)
\* longest token put together from TokenChars
MaxTokenLen == 3

TokenChars == {"a", "Z", "7", "_", "\"", ";", " ", "\n", "-"}

RECURSIVE Tokens(_)
Tokens(n) ==
    IF n = 0 THEN {<<>>}
    ELSE LET shorter == Tokens(n - 1)
         IN  shorter \cup {t \o <<c>> : t \in shorter, c \in TokenChars}

\* tokens of TABLE_NAME_MAX - 1 .. TABLE_NAME_MAX + 2 characters, and tokens
\* of TABLE_NAME_MAX characters followed by one more
LongTokens ==
    {Rep("a", TABLE_NAME_MAX + d) : d \in {0 - 1, 0, 1, 2}}
    \cup {Rep("a", TABLE_NAME_MAX) \o <<c>> : c \in TokenChars}

WideTableNames == Tokens(MaxTokenLen) \cup LongTokens

\* context.args holds the words of the message: not empty, no whitespace
WideTgTableArgs ==
    {<<t>> : t \in {w \in WideTableNames : w # <<>> /\ \A k \in 1..Len(w) : w[k] \notin WHITESPACE}}

NextIdent ==
    \/ http_table(WideTableNames, {<<>>}, GateOutcomes)
    \/ tg_table(WideTgTableArgs, GateOutcomes)
    \/ FormatResults
    \/ SendChunk
    \/ SendDone
    \/ Return

SpecIdent == InitGate /\ [][NextIdent]_vars

\* the handler ran the identifier check on TableToken, and this was its answer
IdentChecked == request.kind \in {"http_table", "tg_table"} /\ HasStage("validate")

TableToken == IF request.kind = "http_table" THEN request.table_name ELSE request.args[1]

IdentChars ==
    {"a","b","c","d","e","f","g","h","i","j","k","l","m",
     "n","o","p","q","r","s","t","u","v","w","x","y","z",
     "A","B","C","D","E","F","G","H","I","J","K","L","M",
     "N","O","P","Q","R","S","T","U","V","W","X","Y","Z",
     "0","1","2","3","4","5","6","7","8","9","_"}

\* t has 1 to 63 characters, each an ASCII letter, a digit or an underscore
IsIdentifier(t) ==
    /\ Len(t) >= 1 /\ Len(t) <= 63
    /\ \A k \in 1..Len(t) : t[k] \in IdentChars

\* C4: the identifier check of http_table and tg_table accepts a token if
\* and only if it has 1 to 63 characters, each an ASCII letter, digit or
\* underscore (so the empty token, a token of 64 or more characters and a
\* token with any other character, a trailing newline included, are
\* rejected), and an accepted token is placed unchanged into the query.
C4_IdentifierCheck ==
    IdentChecked =>
        /\ GateAnswer <=> IsIdentifier(TableToken)
        /\ \A k \in 1..Len(db_calls) :
              db_calls[k].sql = <<"S","E","L","E","C","T"," ","*"," ","F","R","O","M"," ","\"">> \o TableToken \o <<"\""," ","L","I","M","I","T"," ","%","s">>

(***************************************************************************)
(* format_results on many results                                          *)
(***************************************************************************)
\* most rows of a result handed to format_results
MaxFormatRows == 3

\* largest max_rows handed to format_results
MaxCap == 3

FormatCols == {<<>>, <<<<"i","d">>>>, SampleCols}

\* a row whose text cell holds the column separator and a line break
OddRow == <<IntV(0 - 3), StrV(<<"a"," ","|"," ","b","\n","c">>)>>

FormatRows ==
    {SampleRows(n) : n \in 0..MaxFormatRows}
    \cup {<<OddRow>> \o SampleRows(n) : n \in 0..(MaxFormatRows - 1)}

\* a call format_results(cols, rows, max_rows)
InitFormat ==
    /\ HTTP_API_KEY = None
    /\ TELEGRAM_ALLOWED = None
    /\ ALLOWED_CHAT_IDS = parse_allowed(TELEGRAM_ALLOWED)
    /\ pc = "format"
    /\ request = [kind |-> "format_results"]
    /\ trace = <<>> /\ db_calls = <<>> /\ replies = <<>>
    /\ cols \in FormatCols
    /\ rows \in FormatRows
    /\ max_rows \in 0..MaxCap
    /\ lines = <<>> /\ out = <<>> /\ chunk_size = CHUNK_SIZE /\ i = 0 /\ sent = <<>>
    /\ NoTasks

NextFormat ==
    \/ FormatResults
    \/ SendChunk
    \/ SendDone

SpecFormat == InitFormat /\ [][NextFormat]_vars

Formatted == pc \in {"send", "done"} /\ cols # <<>>

endswith(s, suffix) ==
    /\ Len(s) >= Len(suffix)
    /\ SubSeq(s, Len(s) - Len(suffix) + 1, Len(s)) = suffix

\* l is an omission marker stating n
IsMarkerStating(l, n) ==
    /\ startswith(l, <<".",".","."," ">>)
    /\ endswith(l, <<" ","l","i","n","h","a","s"," ","o","m","i","t","i","d","a","s"," ",".",".",".">>)
    /\ LET number == SubSeq(l, 5, Len(l) - 20)
       IN  int_parse(number).ok /\ int_parse(number).val = n

\* lines[2 + k] is the data line of rows[k]
IsDataLine(k) == lines[2 + k] = join(<<" ","|"," ">>, [c \in 1..Len(rows[k]) |-> cell_str(rows[k][c])])

\* C9: for a non-empty column list, R rows and cap C, format_results emits a
\* header line, a separator line and then: if R <= C, exactly R data lines
\* and no omission marker; if R > C, exactly C data lines followed by exactly
\* one omission marker that states R - C.
C9_FormatRowCount ==
    Formatted =>
        /\ Len(lines) >= 2
        /\ lines[1] = join(<<" ","|"," ">>, cols)
        /\ lines[2] = Rep("-", Len(lines[1]))
        /\ out = join(<<"\n">>, lines)
        /\ IF Len(rows) <= max_rows
           THEN /\ Len(lines) = 2 + Len(rows)
                /\ \A k \in 1..Len(rows) : IsDataLine(k)
           ELSE /\ Len(lines) = 2 + max_rows + 1
                /\ \A k \in 1..max_rows : IsDataLine(k)
                /\ IsMarkerStating(lines[Len(lines)], Len(rows) - max_rows)

C9_Witness ==
    /\ Formatted
    /\ Len(rows) = 3 /\ max_rows = 1
    /\ Len(lines) = 4
    /\ IsMarkerStating(lines[4], 2)

(***************************************************************************)
(* The send loop on many blocks and chunk sizes                            *)
(***************************************************************************)
\* longest block put together from BlockChars
MaxBlockLen == 4

\* largest small chunk size
MaxChunk == 3

BlockChars == {"a", "<", "\n"}

RECURSIVE Blocks(_)
Blocks(n) ==
    IF n = 0 THEN {<<>>}
    ELSE LET shorter == Blocks(n - 1)
         IN  shorter \cup {t \o <<c>> : t \in shorter, c \in BlockChars}

\* blocks of one chunk, one chunk and one character, two chunks, and two
\* chunks and one character, for the chunk size of tg_table and tg_query
LongBlocks == {Rep("x", n) : n \in {CHUNK_SIZE, CHUNK_SIZE + 1, 2 * CHUNK_SIZE, 2 * CHUNK_SIZE + 1}}

\* the loop over range(0, len(out), chunk_size) is about to start
InitChunk ==
    /\ HTTP_API_KEY = None
    /\ TELEGRAM_ALLOWED = None
    /\ ALLOWED_CHAT_IDS = parse_allowed(TELEGRAM_ALLOWED)
    /\ pc = "send"
    /\ request = [kind |-> "send_chunks"]
    /\ trace = <<>> /\ db_calls = <<>> /\ replies = <<>>
    /\ cols = <<>> /\ rows = <<>> /\ max_rows = 0 /\ lines = <<>>
    /\ \/ out \in Blocks(MaxBlockLen) /\ chunk_size \in 1..MaxChunk
       \/ out \in LongBlocks /\ chunk_size = CHUNK_SIZE
    /\ i = 0 /\ sent = <<>>
    /\ NoTasks

NextChunk ==
    \/ SendChunk
    \/ SendDone

SpecChunk == InitChunk /\ [][NextChunk]_vars

RECURSIVE Concat(_)
Concat(pieces) ==
    IF pieces = <<>> THEN <<>>
    ELSE Concat(SubSeq(pieces, 1, Len(pieces) - 1)) \o pieces[Len(pieces)].piece

\* C7: the slices out[i:i+L] are taken at i = 0, L, 2L, ... in that order,
\* each is the part of the block at its offset and has 1 to L characters,
\* each is sent as it is taken, and what has been sent so far, concatenated
\* in send order, is the block up to the next offset: the whole block when
\* the loop is over.
C7_ChunkingLossless ==
    pc \in {"send", "done"} =>
        /\ Len(replies) = Len(sent)
        /\ \A k \in 1..Len(sent) :
              /\ sent[k].offset = (k - 1) * chunk_size
              /\ Len(sent[k].piece) >= 1 /\ Len(sent[k].piece) <= chunk_size
              /\ sent[k].piece =
                    SubSeq(out, sent[k].offset + 1, sent[k].offset + Len(sent[k].piece))
              /\ k < Len(sent) => Len(sent[k].piece) = chunk_size
              /\ replies[k].text = <<"<","p","r","e",">">> \o html_escape(sent[k].piece) \o <<"<","/","p","r","e",">">>
        /\ i = Len(sent) * chunk_size
        /\ Concat(sent) = SubSeq(out, 1, IF i < Len(out) THEN i ELSE Len(out))
        /\ pc = "done" => Concat(sent) = out

C7_Witness ==
    /\ pc = "done"
    /\ chunk_size = CHUNK_SIZE
    /\ Len(sent) = 3
    /\ Len(sent[3].piece) = 1

(***************************************************************************)
(* Delivery of large results by tg_table and tg_query                      *)
(***************************************************************************)
DeliverOutcomes == DbOutcomes \cup BigDbResults

NextDeliver ==
    \/ tg_table({<<T_users>>, <<T_users, <<"2">>>>}, DeliverOutcomes)
    \/ tg_query({<<"/","q","u","e","r","y"," ","S","E","L","E","C","T"," ","1">>}, DeliverOutcomes)
    \/ FormatResults
    \/ SendChunk
    \/ SendDone
    \/ Return

SpecDeliver == Init /\ [][NextDeliver]_vars

\* C8: every tabular message tg_table and tg_query send, the slice escaped
\* and wrapped in <pre>...</pre>, has at most 4096 characters.
C8_MessageUnderCeiling ==
    request.kind \in {"tg_table", "tg_query"} =>
        \A k \in 1..Len(replies) :
            replies[k].parse_mode = "HTML" => Len(replies[k].text) <= TELEGRAM_MESSAGE_MAX

(***************************************************************************)
(* Properties of requests handled side by side                             *)
(***************************************************************************)
\* the connections task t opened
OpenedBy(t) == {k \in 1..Len(conns) : conns[k].opened_by = t}

\* the database operation of task t has returned to its caller
OperationReturned(t) == tasks[t].at \in {"returned", "done"}

\* the call or the statement of task t raised
ExecutionFailed(t) == tasks[t].result.from # "none" /\ ~tasks[t].result.ok

\* C11: every connection an operation opened is closed once the operation
\* has returned, whether its statement succeeded or raised, and no
\* connection opened by a finished request is open.
C11_ConnectionsClosed ==
    \A t \in Tasks :
        OperationReturned(t) => \A k \in OpenedBy(t) : ~conns[k].open

\* all requests are finished, one after a statement that raised on its open
\* connection and one after a statement that succeeded
C11_Witness ==
    /\ \A t \in Tasks : tasks[t].at = "done"
    /\ \E t \in Tasks : /\ tasks[t].result.from = "execute" /\ ~tasks[t].result.ok
                        /\ OpenedBy(t) # {}
    /\ \E t \in Tasks : tasks[t].result.ok /\ OpenedBy(t) # {}

\* C12: a finished request that was rejected by a policy (access, name,
\* query, usage) or whose connection or statement failed has produced
\* exactly one reply to its caller.
C12_ExactlyOneReply ==
    \A t \in Tasks :
        tasks[t].at = "done" /\ (tasks[t].rejected \/ ExecutionFailed(t)) =>
            Len(tasks[t].replies) = 1

\* the database call of task t is in flight: handed over and not yet returned
InFlight(t) == tasks[t].at \in {"submitted", "connected", "executed"}

\* C13: in the entry points driven by an event loop (Main.py and main.py),
\* while the database call of a request is in flight the loop is not held
\* by that request's handler, so handlers of other requests can start,
\* advance and complete.
C13_LoopNeverBlocked ==
    program \in {"Main.py", "main.py"} =>
        \A t \in Tasks : InFlight(t) /\ tasks[t].c # 0 => loop # t

\* C14: under every interleaving each execution uses a connection its own
\* request opened, no connection is ever used by two requests, and what a
\* request holds and delivers is the result or the error of its own
\* statement on its own connection.
C14_RequestsIndependent ==
    /\ \A k \in 1..Len(conns) : conns[k].used_by \subseteq {conns[k].opened_by}
    /\ \A t \in Tasks :
          /\ tasks[t].c # 0 => tasks[t].c \in OpenedBy(t)
          /\ \A u \in Tasks : u # t /\ tasks[t].c # 0 => tasks[u].c # tasks[t].c
          /\ tasks[t].result.from = "execute" =>
                /\ tasks[t].result.sql = tasks[t].sql
                /\ conns[tasks[t].c].statements # <<>>
                /\ \A k \in 1..Len(conns[tasks[t].c].statements) :
                      conns[tasks[t].c].statements[k] = tasks[t].sql
          /\ \A k \in 1..Len(tasks[t].replies) :
                tasks[t].replies[k].kind = "result" =>
                    tasks[t].replies[k].detail = tasks[t].result

\* under Main.py two requests with different statements have finished, the
\* one that arrived first (its connection was opened first) after the other
\* had already been answered
C14_Witness ==
    /\ program = "Main.py"
    /\ \E t, u \in Tasks :
          /\ t # u
          /\ tasks[t].at = "returned" /\ tasks[u].at = "done"
          /\ tasks[t].result.ok /\ tasks[u].result.ok
          /\ tasks[t].sql # tasks[u].sql
          /\ tasks[t].c = 1 /\ tasks[u].c = 2

\* C15: a request of http_table, http_query, tg_table or tg_query opens at
\* most one connection and executes at most one statement; when the attempt
\* failed there is no second attempt, the caller gets no result, and the one
\* reply it gets carries the error of that attempt.
C15_SingleAttempt ==
    program = "Main.py" =>
        \A t \in Tasks :
            /\ Cardinality(OpenedBy(t)) <= 1
            /\ \A k \in OpenedBy(t) : Len(conns[k].statements) <= 1
            /\ tasks[t].at = "done" /\ ExecutionFailed(t) =>
                  /\ tasks[t].replies = <<[kind |-> "error", detail |-> tasks[t].result]>>
                  /\ tasks[t].result.from = "execute" =>
                        /\ tasks[t].result.sql = tasks[t].sql
                        /\ conns[tasks[t].c].statements = <<tasks[t].sql>>

\* under Main.py one request finished after its statement raised and another
\* after its connection could not be opened
C15_Witness ==
    /\ program = "Main.py"
    /\ \E t, u \in Tasks :
          /\ tasks[t].at = "done" /\ tasks[t].result = Failure("execute", tasks[t].sql)
          /\ tasks[u].at = "done" /\ tasks[u].result = Failure("connect", <<>>)

(***************************************************************************)
(* tg_table / tg_query when the channel rejects a message                  *)
(***************************************************************************)
\* reply_text(..., parse_mode="HTML") raises: nothing in the loop catches
\* it, so the exception leaves the handler with the slice at i and every
\* later slice unsent
SendRejected ==
    /\ pc = "send"
    /\ i < Len(out)
    /\ trace' = Append(trace, Stage("send", FALSE))
    /\ pc' = "done"
    /\ UNCHANGED <<HTTP_API_KEY, TELEGRAM_ALLOWED, ALLOWED_CHAT_IDS, request, db_calls,
                   replies, cols, rows, max_rows, lines, out, chunk_size, i, sent, conc>>

\* results of every shape, one with a single unnamed column among them
TransportOutcomes ==
    DbOutcomes \cup BigDbResults \cup {[ok |-> TRUE, cols |-> <<<<>>>>, rows |-> <<>>]}

NextTransport ==
    \/ tg_table({<<T_users>>, <<T_users, <<"2">>>>}, TransportOutcomes)
    \/ tg_query({<<"/","q","u","e","r","y"," ","S","E","L","E","C","T"," ","1">>}, TransportOutcomes)
    \/ FormatResults
    \/ SendChunk
    \/ SendRejected
    \/ SendDone
    \/ Return

SpecTransport == Init /\ [][NextTransport]_vars

\* the database call of the request succeeded
Executed == \E k \in 1..Len(trace) : trace[k].stage = "execute" /\ trace[k].ok

\* a send of the request was rejected by the channel
SendFailed == \E k \in 1..Len(trace) : trace[k].stage = "send" /\ ~trace[k].ok

\* C16: when the channel rejects a marked-up message of tg_table or
\* tg_query, its content is still delivered (as a plain reply) and the
\* remaining segments are delivered too: a finished request has delivered
\* every segment of its block.
C16_MarkupFallback ==
    request.kind \in {"tg_table", "tg_query"} /\ Executed /\ pc = "done" =>
        /\ Len(replies) = Len(sent)
        /\ Concat(sent) = out

\* C17: format_results never returns an empty string (the sentinel for an
\* empty column list, at least a header and a separator line otherwise), so
\* a tg_table or tg_query request whose database call succeeded sends at
\* least one message, and exactly ceil(len(out) / 3800) when no send fails.
C17_AtLeastOneMessage ==
    request.kind \in {"tg_table", "tg_query"} /\ Executed /\ pc \in {"send", "done"} =>
        /\ out = format_results(cols, rows, max_rows)
        /\ out # <<>>
        /\ cols = <<>> => out = <<"(","n","e","n","h","u","m"," ","r","e","s","u","l","t","a","d","o",")">>
        /\ cols # <<>> => Len(lines) >= 2 /\ out = join(<<"\n">>, lines)
        /\ pc = "done" =>
              /\ Len(replies) + (IF SendFailed THEN 1 ELSE 0) >= 1
              /\ ~SendFailed =>
                    /\ Len(replies) = (Len(out) + CHUNK_SIZE - 1) \div CHUNK_SIZE
                    /\ \A k \in 1..Len(replies) : replies[k].parse_mode = "HTML"

\* a request whose block needed two messages has sent both
C17_Witness ==
    /\ request.kind \in {"tg_table", "tg_query"} /\ Executed /\ pc = "done"
    /\ ~SendFailed
    /\ Len(out) > CHUNK_SIZE /\ Len(replies) = 2

====
